---- MODULE Spec2Model ----
(***************************************************************************)
(* A model of sql-mts-k.py: the startup code, the scheduler loop, the      *)
(* fetch/retry pipeline fetch_current_prices and the sqlite3 storage       *)
(* helpers, with the committed database file kept apart from the           *)
(* connection's uncommitted view.                                          *)
(***************************************************************************)
EXTENDS Integers, Sequences, FiniteSets, Bags, TLC

(* ------------------------------ bounds -------------------------------- *)
\* largest `tries` a configuration file of the model sets
MaxTries == 2
\* longest station list of a response body
MaxStations == 2

(* ------------------------- program constants -------------------------- *)
DefaultTries == 3
DefaultTimeout == 10
DefaultInterval == 360
HttpOk == 200
HttpError == 500
FiveMinutes == 300

\* typing.Optional: None is the empty tuple, a value v is <<v>>
None == << >>
Some(v) == << v >>

DefaultDatabasePath == "/etc/sql_mts_k.db"

(* --------------------------- input domains ---------------------------- *)
\* 1.599 in thousandths
Price == 1599
\* round(datetime.timestamp(datetime.now())): wall-clock seconds, which may
\* repeat or step back between cycles
Timestamps == {1000, 1001}

TriesValues == 0..MaxTries
TimeoutValues == {10}
\* one below five minutes, one that equals 300 + tries * timeout for
\* tries = 2, and one above
IntervalValues == {60, 320, 360}

(* ----------------------------- dataclasses ---------------------------- *)
\* SqlStation declared with name as its first field
SqlStationFieldsNameFirst ==
    <<"name", "id", "brand", "street", "place", "lat", "lng", "dist",
      "houseNumber", "postCode">>

SqlStationFields ==
    <<"id", "name", "brand", "street", "place", "lat", "lng", "dist",
      "houseNumber", "postCode">>
SqlPriceFields == <<"stationId", "timestamp", "price">>
\* the two fields of SqlStatus declared in the other order
SqlStatusFieldsReordered == <<"isOpen", "stationId">>
SqlStatusFields == <<"stationId", "isOpen">>

TankerkoenigStation(id, name, price, isOpen) ==
    [id |-> id, name |-> name, brand |-> "Shell", street |-> "Main",
     place |-> "Town", lat |-> 1, lng |-> 2, dist |-> 5, price |-> price,
     isOpen |-> isOpen, houseNumber |-> "1", postCode |-> 12345]

\* the snapshots a response is made of: station A1 seen in two ways (name
\* and open flag differ), A1 without a price, and a second station B2
Snapshots ==
    {TankerkoenigStation("A1", "Shell", Some(Price), TRUE),
     TankerkoenigStation("A1", "Aral", Some(Price), FALSE),
     TankerkoenigStation("A1", "Aral", None, FALSE),
     TankerkoenigStation("B2", "Shell", Some(Price), TRUE)}

StationLists == UNION {[1..n -> Snapshots] : n \in 0..MaxStations}

TankerkoenigListResponse(ok, stations) ==
    [ok |-> ok,
     status |-> IF ok THEN "ok" ELSE "error",
     message |-> IF ok THEN None ELSE Some("apikey invalid"),
     stations |-> stations]

\* the JSON bodies a success status can carry that dacite accepts
Bodies ==
    {TankerkoenigListResponse(ok, st) :
        ok \in BOOLEAN, st \in {None} \cup {Some(l) : l \in StationLists}}

\* the positional arguments of lines 175-176 in the other order
SqlStationLngLat(station) ==
    [id |-> station.id, name |-> station.name, brand |-> station.brand,
     street |-> station.street, place |-> station.place, lat |-> station.lng,
     lng |-> station.lat, dist |-> station.dist,
     houseNumber |-> station.houseNumber, postCode |-> station.postCode]

SqlStation(station) ==
    [id |-> station.id, name |-> station.name, brand |-> station.brand,
     street |-> station.street, place |-> station.place, lat |-> station.lat,
     lng |-> station.lng, dist |-> station.dist,
     houseNumber |-> station.houseNumber, postCode |-> station.postCode]

\* sqlite3 stores a Python bool as the integer 1 or 0
SqliteAdapt(b) == IF b THEN 1 ELSE 0

SqlStatus(station) ==
    [stationId |-> station.id, isOpen |-> SqliteAdapt(station.isOpen)]

SqlPrice(station, ts) ==
    [stationId |-> station.id, timestamp |-> ts, price |-> station.price[1]]

(* ------------------------------ storage ------------------------------- *)
TableNames == {"stations", "prices", "status"}

\* a database file with no table in it
EmptyDatabase == [t \in {} |-> [pk |-> {}, rows |-> EmptyBag]]

\* list.index: the 0-based position of the first occurrence
ListIndex(list, x) ==
    CHOOSE k \in 0..(Len(list) - 1) :
        /\ list[k + 1] = x
        /\ \A j \in 0..(k - 1) : list[j + 1] # x

\* `at := field_names.index(primary_key) < 0` binds `at` to the comparison,
\* a bool, which then indexes field_names as 0 (False) or 1 (True)
PrimaryKeyAt(field_names, primary_key) ==
    IF ListIndex(field_names, primary_key) < 0 THEN 1 ELSE 0

StrKey(name) == [type |-> "str", value |-> name]
TupleKey(names) == [type |-> "tuple", value |-> names]

\* the isinstance(primary_key, tuple) branch of lines 71-72 left out: a
\* composite key declares no primary key at all
PrimaryKeyColumnsStrOnly(field_names, primary_key) ==
    IF primary_key.type = "str"
      THEN {field_names[PrimaryKeyAt(field_names, primary_key.value) + 1]}
      ELSE {}

\* the columns the CREATE TABLE statement declares as the primary key
PrimaryKeyColumns(field_names, primary_key) ==
    CASE primary_key.type = "str" ->
            {field_names[PrimaryKeyAt(field_names, primary_key.value) + 1]}
      [] primary_key.type = "tuple" ->
            {primary_key.value[k] : k \in 1..Len(primary_key.value)}
      [] OTHER -> {}

\* CREATE TABLE without IF NOT EXISTS fails on a table that exists
CreateTableRaises(db, table_name, if_not_exists) ==
    table_name \in DOMAIN db /\ ~if_not_exists

\* the table dropped and created anew on every startup
sqlite3_create_table_anew(db, table_name, field_names, primary_key, if_not_exists) ==
    [t \in DOMAIN db \cup {table_name} |->
        IF t = table_name
          THEN [pk |-> PrimaryKeyColumns(field_names, primary_key),
                rows |-> EmptyBag]
          ELSE db[t]]

sqlite3_create_table_for_dataclass(db, table_name, field_names, primary_key, if_not_exists) ==
    IF table_name \in DOMAIN db
      THEN db
      ELSE [t \in DOMAIN db \cup {table_name} |->
              IF t = table_name
                THEN [pk |-> PrimaryKeyColumns(field_names, primary_key),
                      rows |-> EmptyBag]
                ELSE db[t]]

\* a row of the table with the same values in every primary-key column
Conflicts(table, row) ==
    /\ table.pk # {}
    /\ \E r \in BagToSet(table.rows) : \A c \in table.pk : r[c] = row[c]

\* INSERT without OR IGNORE fails on a primary-key conflict
InsertRaises(db, table_name, row, or_ignore) ==
    Conflicts(db[table_name], row) /\ ~or_ignore

\* INSERT OR REPLACE in place of INSERT OR IGNORE: the conflicting rows give
\* way to the new one
sqlite3_insert_or_replace(db, table_name, row, or_ignore) ==
    LET table == db[table_name]
        kept == {r \in BagToSet(table.rows) :
                    table.pk = {} \/ \E c \in table.pk : r[c] # row[c]}
    IN  [db EXCEPT ![table_name].rows =
            [r \in kept |-> table.rows[r]] (+) SetToBag({row})]

sqlite3_insert_dataclass(db, table_name, row, or_ignore) ==
    IF Conflicts(db[table_name], row)
      THEN db
      ELSE [db EXCEPT ![table_name].rows = @ (+) SetToBag({row})]

Rows(db, table_name) ==
    IF table_name \in DOMAIN db THEN db[table_name].rows ELSE EmptyBag

(* --------------------------- configuration --------------------------- *)
SqlMtsKConfig(tries, timeout, interval, database_path) ==
    [tries |-> tries, timeout |-> timeout, interval |-> interval,
     database_path |-> database_path]

\* the [sql_mts_k] table of the file: each key is there (Some) or not (None)
Sections ==
    [tries : {None} \cup {Some(t) : t \in TriesValues},
     timeout : {None} \cup {Some(t) : t \in TimeoutValues},
     interval : {None} \cup {Some(t) : t \in IntervalValues},
     database_path : {None, Some(DefaultDatabasePath)}]

\* the file at CONFIG_PATH: `loadable` is false for a missing or malformed
\* file and for one without a complete [tankerkoenig] table
ConfigFiles ==
    {[loadable |-> FALSE, section |-> None]} \cup
    {[loadable |-> TRUE, section |-> s] :
        s \in {None} \cup {Some(x) : x \in Sections}}

\* dacite.from_dict raises when a field without a default is missing
FromFileRaises(f) ==
    \/ ~f.loadable
    \/ /\ f.section # None
       /\ \E k \in {"tries", "timeout", "interval", "database_path"} :
              f.section[1][k] = None

\* Config.from_file(...).sql_mts_k of a file that loads
FromFile(f) ==
    IF f.section = None
      THEN None
      ELSE Some(SqlMtsKConfig(f.section[1].tries[1], f.section[1].timeout[1],
                              f.section[1].interval[1],
                              f.section[1].database_path[1]))

DefaultConfig ==
    SqlMtsKConfig(DefaultTries, DefaultTimeout, DefaultInterval,
                  DefaultDatabasePath)

\* the five minutes written as 5, without the * 60
IntervalCheckInMinutes(cfg) ==
    cfg.interval < 5 + (cfg.tries * cfg.timeout)

IntervalCheckRaises(cfg) ==
    cfg.interval < FiveMinutes + (cfg.tries * cfg.timeout)

(* -------------------------------- state -------------------------------- *)
VARIABLES
    file,        \* the configuration file on disk
    database,    \* the committed contents of the database file
    pc,          \* where the process is
    sql_mts_k,   \* the global policy record
    cur,         \* the database as the open connection sees it
    i,           \* loop variable of the retry loop
    response,    \* status code of the last HTTP response (0: none yet)
    data,        \* the deserialized body
    timestamp,   \* the cycle's timestamp
    idx,         \* position of the station loop in data.stations
    exc,         \* the uncaught exception that ended the process
    nreq,        \* HTTP requests made in the current cycle
    nsleep,      \* retry delays slept in the current cycle
    stderr,      \* kinds of log line written since the cycle began
    elapsed      \* seconds since the last HTTP request, counted up to
                 \* FiveMinutes (none in the last five minutes)

vars == <<file, database, pc, sql_mts_k, cur, i, response, data, timestamp,
          idx, exc, nreq, nsleep, stderr, elapsed>>

\* the clock d seconds later
Later(t, d) == IF t + d < FiveMinutes THEN t + d ELSE FiveMinutes

NoData == TankerkoenigListResponse(TRUE, None)

locals == <<i, response, data, timestamp, idx>>
LocalsReset ==
    /\ i' = 0
    /\ response' = 0
    /\ data' = NoData
    /\ timestamp' = 0
    /\ idx' = 0

\* an uncaught exception (none is caught after line 258) unwinds to the top and
\* ends the process, and its local variables with it; the connection dies
\* with its transaction uncommitted
Raise(e) ==
    /\ pc' = "crashed"
    /\ exc' = e
    /\ LocalsReset

Init ==
    /\ file \in ConfigFiles
    /\ database = EmptyDatabase
    /\ pc = "start"
    /\ sql_mts_k = DefaultConfig
    /\ cur = EmptyDatabase
    /\ i = 0
    /\ response = 0
    /\ data = NoData
    /\ timestamp = 0
    /\ idx = 0
    /\ exc = "none"
    /\ nreq = 0
    /\ nsleep = 0
    /\ stderr = {}
    /\ elapsed = FiveMinutes

(* ------------------------------- startup ------------------------------- *)
\* the if_not_exists parameter's default of line 58
IfNotExistsDefault == FALSE

\* if_not_exists=True at lines 267, 272 and 277
IfNotExists == TRUE

\* the three CREATE TABLE IF NOT EXISTS statements of lines 263-277; sqlite3
\* runs DDL outside a transaction, so each takes effect on the file at once
CreateTables(db) ==
    LET s1 == sqlite3_create_table_for_dataclass(
                  db, "stations", SqlStationFields, StrKey("id"), IfNotExists)
        s2 == sqlite3_create_table_for_dataclass(
                  s1, "prices", SqlPriceFields,
                  TupleKey(<<"stationId", "timestamp">>), IfNotExists)
    IN  sqlite3_create_table_for_dataclass(
            s2, "status", SqlStatusFields, StrKey("stationId"), IfNotExists)

\* whether one of the three statements raises sqlite3.OperationalError
CreateTablesRaises(db) ==
    \E t \in TableNames : CreateTableRaises(db, t, IfNotExists)

\* the database opened and the schema created above the try block of line
\* 240, before the configuration is validated
LoadConfigAfterOpen ==
    /\ pc = "start"
    /\ database' = CreateTables(database)
    /\ cur' = database'
    /\ IF FromFileRaises(file)
         THEN /\ pc' = "exit1"
              /\ stderr' = stderr \cup {"config"}
              /\ UNCHANGED sql_mts_k
         ELSE LET cfg == IF FromFile(file) # None THEN FromFile(file)[1]
                         ELSE sql_mts_k
              IN  /\ sql_mts_k' = cfg
                  /\ IF IntervalCheckRaises(cfg)
                       THEN /\ pc' = "exit1"
                            /\ stderr' = stderr \cup {"config"}
                       ELSE /\ pc' = "configured"
                            /\ UNCHANGED stderr
    /\ UNCHANGED <<file, locals, exc, nreq, nsleep, elapsed>>

\* lines 240-258: load the configuration and validate the interval; error()
\* logs and exits with status 1
LoadConfig ==
    /\ pc = "start"
    /\ IF FromFileRaises(file)
         THEN /\ pc' = "exit1"
              /\ stderr' = stderr \cup {"config"}
              /\ UNCHANGED sql_mts_k
         ELSE LET cfg == IF FromFile(file) # None THEN FromFile(file)[1]
                         ELSE sql_mts_k
              IN  /\ sql_mts_k' = cfg
                  /\ IF IntervalCheckRaises(cfg)
                       THEN /\ pc' = "exit1"
                            /\ stderr' = stderr \cup {"config"}
                       ELSE /\ pc' = "configured"
                            /\ UNCHANGED stderr
    /\ UNCHANGED <<file, database, cur, locals, exc, nreq, nsleep>>
    /\ UNCHANGED elapsed

\* lines 260-281: connect, create the schema, schedule the job; an error of
\* a CREATE TABLE statement is caught nowhere
OpenDatabase ==
    /\ pc = "configured"
    /\ IF CreateTablesRaises(database)
         THEN /\ Raise("OperationalError")
              /\ cur' = database
              /\ UNCHANGED <<database, stderr>>
         ELSE /\ database' = CreateTables(database)
              /\ cur' = database'
              /\ pc' = "idle"
              /\ stderr' = stderr \cup {"init"}
              /\ UNCHANGED <<locals, exc>>
    /\ UNCHANGED <<file, sql_mts_k, nreq, nsleep>>
    /\ UNCHANGED elapsed

(* --------------------------- scheduler loop ---------------------------- *)
\* schedule.idle_seconds() at line 284: the job's next run is set to
\* now + interval when it is scheduled (line 279) and again when a run of it
\* returns, and nothing but the call of idle_seconds lies in between
IdleSeconds == sql_mts_k.interval

\* lines 283-288: sleep until the job is due, then run it; the job starts
\* at the head of its retry loop
RunPending ==
    /\ pc = "idle"
    /\ pc' = "request"
    /\ LocalsReset
    /\ nreq' = 0
    /\ nsleep' = 0
    /\ stderr' = {}
    /\ UNCHANGED <<file, database, sql_mts_k, cur, exc>>
    /\ elapsed' = Later(elapsed, IdleSeconds)

(* ------------------------- fetch_current_prices ------------------------ *)
\* the loop written as range(1, tries): one iteration short
InRangeFromOne == i + 1 < sql_mts_k.tries

\* line 217: range(0, tries) has a value for the loop variable
InRange == i < sql_mts_k.tries

\* line 218 raising requests.ConnectionError
RequestRaises ==
    /\ pc = "request"
    /\ InRange
    /\ nreq' = nreq + 1
    /\ Raise("ConnectionError")
    /\ UNCHANGED <<file, database, sql_mts_k, cur, nsleep, stderr>>
    /\ elapsed' = 0

\* lines 218-222: a request answered with a non-success status
RequestFails ==
    /\ pc = "request"
    /\ InRange
    /\ nreq' = nreq + 1
    /\ response' = HttpError
    /\ stderr' = stderr \cup {"retry"}
    /\ pc' = "sleep"
    /\ UNCHANGED <<file, database, sql_mts_k, cur, i, data, timestamp, idx,
                   exc, nsleep>>
    /\ elapsed' = 0

\* line 223 and the loop's next iteration
RetrySleep ==
    /\ pc = "sleep"
    /\ nsleep' = nsleep + 1
    /\ i' = i + 1
    /\ pc' = "request"
    /\ UNCHANGED <<file, database, sql_mts_k, cur, response, data, timestamp,
                   idx, exc, nreq, stderr>>
    /\ elapsed' = Later(elapsed, sql_mts_k.timeout)

\* lines 224-226: the loop ran out without a break
Exhausted ==
    /\ pc = "request"
    /\ ~InRange
    /\ stderr' = stderr \cup {"exhausted"}
    /\ pc' = "idle"
    /\ LocalsReset
    /\ UNCHANGED <<file, database, sql_mts_k, cur, exc, nreq, nsleep>>
    /\ UNCHANGED elapsed

\* the `break` of line 220 left out: a success status is slept on and retried
\* like a failure
RequestSucceedsNoBreak ==
    /\ pc = "request"
    /\ InRange
    /\ nreq' = nreq + 1
    /\ response' = HttpOk
    /\ stderr' = stderr \cup {"retry"}
    /\ pc' = "sleep"
    /\ UNCHANGED <<file, database, sql_mts_k, cur, i, data, timestamp, idx,
                   exc, nsleep>>
    /\ elapsed' = 0

\* lines 218-220: a request answered with status 200 breaks out of the loop
RequestSucceeds ==
    /\ pc = "request"
    /\ InRange
    /\ nreq' = nreq + 1
    /\ response' = HttpOk
    /\ pc' = "parse"
    /\ UNCHANGED <<file, database, sql_mts_k, cur, i, data, timestamp, idx,
                   exc, nsleep, stderr>>
    /\ elapsed' = 0

\* lines 228-229 raising: the body is no JSON or misses a required field
DeserializeRaises ==
    /\ pc = "parse"
    /\ Raise("DaciteError")
    /\ UNCHANGED <<file, database, sql_mts_k, cur, nreq, nsleep, stderr>>
    /\ UNCHANGED elapsed

\* lines 228-232 and 163-167: deserialize, log an API error, enter
\* insert_into_database, assert the station list (under python -O the
\* assert is compiled out and the for loop raises TypeError on None), take
\* the timestamp
Deserialize ==
    /\ pc = "parse"
    /\ \E body \in Bodies, ts \in Timestamps :
          /\ stderr' = IF body.ok THEN stderr ELSE stderr \cup {"api"}
          /\ IF body.stations = None
               THEN \E e \in {"AssertionError", "TypeError"} : Raise(e)
               ELSE /\ data' = body
                    /\ timestamp' = ts
                    /\ idx' = 1
                    /\ pc' = "insert"
                    /\ UNCHANGED <<i, response, exc>>
    /\ UNCHANGED <<file, database, sql_mts_k, cur, nreq, nsleep>>
    /\ UNCHANGED elapsed

(* ------------------------- insert_into_database ------------------------ *)
\* the rows lines 170-185 derive from a snapshot, in the order lines 187-200
\* insert them
Derived(station, ts) ==
    << [table |-> "stations", row |-> SqlStation(station)],
       [table |-> "status", row |-> SqlStatus(station)],
       [table |-> "prices", row |-> SqlPrice(station, ts)] >>

\* the first n of the three inserts of lines 187-200, each with or_ignore=True
RECURSIVE InsertFirst(_, _, _, _)
InsertFirst(db, station, ts, n) ==
    IF n = 0
      THEN db
      ELSE LET d == Derived(station, ts)[n]
           IN  sqlite3_insert_dataclass(InsertFirst(db, station, ts, n - 1),
                                        d.table, d.row, TRUE)

\* whether one of the first n inserts raises sqlite3.IntegrityError
InsertFirstRaises(db, station, ts, n) ==
    \E k \in 1..n :
        LET d == Derived(station, ts)[k]
        IN  InsertRaises(InsertFirst(db, station, ts, k - 1), d.table, d.row,
                         TRUE)

\* the connection in autocommit mode: every iteration's inserts reach the
\* file at once
InsertStationAutocommit ==
    /\ pc = "insert"
    /\ idx <= Len(data.stations[1])
    /\ LET station == data.stations[1][idx]
       IN  IF station.price = None
             THEN UNCHANGED cur
             ELSE cur' = InsertFirst(cur, station, timestamp, 3)
    /\ database' = cur'
    /\ idx' = idx + 1
    /\ UNCHANGED <<file, sql_mts_k, pc, exc, i, response, data, timestamp,
                   nreq, nsleep, stderr>>
    /\ UNCHANGED elapsed

\* the stations insert moved above the price check of line 181: a snapshot
\* without a price still records its station row
InsertStationBeforeSkip ==
    /\ pc = "insert"
    /\ idx <= Len(data.stations[1])
    /\ LET station == data.stations[1][idx]
       IN  IF station.price = None
             THEN cur' = sqlite3_insert_dataclass(cur, "stations",
                                                  SqlStation(station), TRUE)
             ELSE cur' = InsertFirst(cur, station, timestamp, 3)
    /\ idx' = idx + 1
    /\ UNCHANGED <<file, database, sql_mts_k, pc, exc, i, response, data,
                   timestamp, nreq, nsleep, stderr>>
    /\ UNCHANGED elapsed

\* the timestamp of lines 165-167 taken inside the loop, once per station
InsertStationOwnTimestamp ==
    /\ pc = "insert"
    /\ idx <= Len(data.stations[1])
    /\ LET station == data.stations[1][idx]
       IN  IF station.price = None
             THEN UNCHANGED cur
             ELSE \E ts \in Timestamps :
                      cur' = InsertFirst(cur, station, ts, 3)
    /\ idx' = idx + 1
    /\ UNCHANGED <<file, database, sql_mts_k, pc, exc, i, response, data,
                   timestamp, nreq, nsleep, stderr, elapsed>>

\* one iteration of the loop of lines 169-200
InsertStation ==
    /\ pc = "insert"
    /\ idx <= Len(data.stations[1])
    /\ LET station == data.stations[1][idx]
       IN  IF station.price = None
             THEN /\ idx' = idx + 1
                  /\ UNCHANGED <<pc, cur, exc, i, response, data, timestamp>>
             ELSE IF InsertFirstRaises(cur, station, timestamp, 3)
                    THEN /\ Raise("IntegrityError")
                         /\ UNCHANGED cur
                    ELSE /\ cur' = InsertFirst(cur, station, timestamp, 3)
                         /\ idx' = idx + 1
                         /\ UNCHANGED <<pc, exc, i, response, data, timestamp>>
    /\ UNCHANGED <<file, database, sql_mts_k, nreq, nsleep, stderr>>
    /\ UNCHANGED elapsed

\* cursor.execute raising sqlite3.OperationalError (disk full, I/O error) in
\* the n-th insert of an iteration, after the n-1 before it took effect
InsertFails ==
    /\ pc = "insert"
    /\ idx <= Len(data.stations[1])
    /\ data.stations[1][idx].price # None
    /\ \E n \in 1..3 :
          cur' = InsertFirst(cur, data.stations[1][idx], timestamp, n - 1)
    /\ Raise("OperationalError")
    /\ UNCHANGED <<file, database, sql_mts_k, nreq, nsleep, stderr>>
    /\ UNCHANGED elapsed

\* lines 235-237: the loop is over; commit and log
Commit ==
    /\ pc = "insert"
    /\ idx > Len(data.stations[1])
    /\ database' = cur
    /\ stderr' = stderr \cup {"success"}
    /\ pc' = "idle"
    /\ LocalsReset
    /\ UNCHANGED <<file, sql_mts_k, cur, exc, nreq, nsleep>>
    /\ UNCHANGED elapsed

\* line 235 raising sqlite3.OperationalError
CommitFails ==
    /\ pc = "insert"
    /\ idx > Len(data.stations[1])
    /\ Raise("OperationalError")
    /\ UNCHANGED <<file, database, sql_mts_k, cur, nreq, nsleep, stderr>>
    /\ UNCHANGED elapsed

(* ------------------------------ the process ---------------------------- *)
\* the process is started again after an uncaught exception ended it: the
\* module-level state is fresh, the database file is what was committed
Restart ==
    /\ pc = "crashed"
    /\ pc' = "start"
    /\ sql_mts_k' = DefaultConfig
    /\ cur' = EmptyDatabase
    /\ LocalsReset
    /\ exc' = "none"
    /\ nreq' = 0
    /\ nsleep' = 0
    /\ stderr' = {}
    /\ UNCHANGED <<file, database>>
    /\ UNCHANGED elapsed

Next ==
    \/ LoadConfig
    \/ OpenDatabase
    \/ RunPending
    \/ RequestRaises
    \/ RequestFails
    \/ RetrySleep
    \/ Exhausted
    \/ RequestSucceeds
    \/ DeserializeRaises
    \/ Deserialize
    \/ InsertStation
    \/ InsertFails
    \/ Commit
    \/ CommitFails
    \/ Restart

Spec == Init /\ [][Next]_vars

(* ============================== properties ============================= *)
Committed(t) == BagToSet(Rows(database, t))
Pending(t) == BagToSet(Rows(cur, t))

RowsChange == \E t \in TableNames : Rows(database', t) # Rows(database, t)

\* what the whole station list makes of a database: every priced snapshot's
\* three inserts, in list order
RECURSIVE InsertAll(_, _, _)
InsertAll(db, stations, ts) ==
    IF stations = << >>
      THEN db
      ELSE LET head == Head(stations)
               next == IF head.price = None THEN db
                       ELSE InsertFirst(db, head, ts, 3)
           IN  InsertAll(next, Tail(stations), ts)

\* C1: when every attempt of a cycle fails with a non-success status, the
\* cycle ends after exactly `tries` requests, writes and commits nothing and
\* returns to the scheduler loop; no step of the retry loop touches the
\* connection's view or the committed database.
C1_RetryExhaustion ==
    [][ /\ pc \in {"request", "sleep"} => (cur' = cur /\ database' = database)
        /\ (pc = "request" /\ pc' = "idle") =>
              /\ nreq = sql_mts_k.tries
              /\ nreq' = nreq
              /\ nsleep = sql_mts_k.tries
              /\ cur = database
              /\ "exhausted" \in stderr' ]_vars

C1_Witness ==
    /\ pc = "idle"
    /\ "exhausted" \in stderr
    /\ sql_mts_k.tries = 3
    /\ nreq = 3
    /\ Committed("stations") # {}

\* C2: the retry loop stops at the first success: when the k-th attempt is the
\* first with a success status, exactly k requests have been made (i counts
\* the failed ones before it), none follows while the cycle deserializes and
\* persists, and a delay is slept only after a failed attempt, once each.
C2_StopAtFirstSuccess ==
    /\ pc \in {"parse", "insert"} =>
          /\ response = HttpOk
          /\ nreq = i + 1
          /\ nreq <= sql_mts_k.tries
          /\ nsleep = i
    /\ pc = "sleep" => (response # HttpOk /\ nsleep = nreq - 1)
    /\ pc = "request" => nsleep = nreq
    /\ "success" \in stderr => nsleep = nreq - 1

C2_Witness ==
    /\ pc = "insert"
    /\ nreq = 3
    /\ nsleep = 2
    /\ idx > 1

\* C3: the committed rows change only in the commit that follows the last
\* station of the response, and then to what the whole response makes of
\* them; a cycle that fails partway leaves the committed rows as they were.
C3_AtomicCycle ==
    [][ /\ RowsChange =>
              /\ pc = "insert"
              /\ idx > Len(data.stations[1])
              /\ database' = InsertAll(database, data.stations[1], timestamp)
        /\ pc' = "crashed" => database' = database ]_vars

\* a cycle died of a storage error after a whole station's rows were inserted
C3_Witness ==
    /\ pc = "crashed"
    /\ exc = "OperationalError"
    /\ Pending("prices") # Committed("prices")
    /\ Committed("stations") # {}

\* C4: an iteration on a snapshot without a price inserts nothing anywhere and
\* moves on to the next snapshot; an iteration on a priced snapshot that does
\* not raise leaves a row with the snapshot's key in each of the three tables.
C4_SkipOnNullPrice ==
    [][ (pc = "insert" /\ idx <= Len(data.stations[1])) =>
            LET station == data.stations[1][idx]
            IN  IF station.price = None
                  THEN /\ cur' = cur
                       /\ database' = database
                       /\ pc' = "insert"
                       /\ idx' = idx + 1
                  ELSE pc' = "insert" =>
                         /\ idx' = idx + 1
                         /\ \E r \in BagToSet(Rows(cur', "stations")) :
                               r.id = station.id
                         /\ \E r \in BagToSet(Rows(cur', "status")) :
                               r.stationId = station.id
                         /\ \E r \in BagToSet(Rows(cur', "prices")) :
                               /\ r.stationId = station.id
                               /\ r.timestamp = timestamp ]_vars

\* a list of an unpriced A1 and a priced B2 has been processed on a database
\* that knew neither: B2 is there, A1 is not
C4_Witness ==
    /\ pc = "insert"
    /\ idx = 3
    /\ data.stations[1][1].price = None
    /\ data.stations[1][2].price # None
    /\ Committed("stations") = {}
    /\ {r.id : r \in Pending("stations")} = {"B2"}
    /\ {r.stationId : r \in Pending("status")} = {"B2"}
    /\ {r.stationId : r \in Pending("prices")} = {"B2"}

\* no two rows of the table agree on the given key columns, and no row is
\* there twice
UniqueOn(rows, key) ==
    /\ \A r \in BagToSet(rows) : CopiesIn(r, rows) = 1
    /\ \A r1, r2 \in BagToSet(rows) :
          (\A c \in key : r1[c] = r2[c]) => r1 = r2

\* every row the connection sees stays as it is while the process lives, and
\* every committed row stays as it is
Kept(t) ==
    /\ pc' # "start" => \A r \in Pending(t) : r \in BagToSet(Rows(cur', t))
    /\ \A r \in Committed(t) : r \in BagToSet(Rows(database', t))

\* C5: the stations table, as committed and as the connection sees it, never
\* holds two rows with one id; a row once inserted stays as first written
\* when later snapshots carry its id with other field values; and no insert
\* raises a constraint error.
C5_StationFirstWriteWins ==
    [][ /\ UniqueOn(Rows(cur, "stations"), {"id"})
        /\ UniqueOn(Rows(cur', "stations"), {"id"})
        /\ UniqueOn(Rows(database', "stations"), {"id"})
        /\ Kept("stations")
        /\ exc' # "IntegrityError" ]_vars

\* A1 is committed as "Shell"; a later cycle has just processed a priced
\* snapshot of A1 named "Aral" and the connection still sees the one Shell row
C5_Witness ==
    /\ pc = "insert"
    /\ idx = 2
    /\ data.stations[1][1] = TankerkoenigStation("A1", "Aral", Some(Price), FALSE)
    /\ \E r \in Committed("stations") : r.id = "A1" /\ r.name = "Shell"
    /\ {r.name : r \in {q \in Pending("stations") : q.id = "A1"}} = {"Shell"}

\* C6: the prices table, as committed and as the connection sees it, never
\* holds two rows with one (stationId, timestamp), and inserting such a pair
\* again raises no constraint error.
C6_PriceUnique ==
    /\ UniqueOn(Rows(cur, "prices"), {"stationId", "timestamp"})
    /\ UniqueOn(Rows(database, "prices"), {"stationId", "timestamp"})
    /\ exc # "IntegrityError"

\* a list with the same priced station twice has been processed at a
\* timestamp at which that station's price was already committed
C6_Witness ==
    /\ pc = "insert"
    /\ idx = 3
    /\ data.stations[1][1].price # None
    /\ data.stations[1][2] = data.stations[1][1]
    /\ SqlPrice(data.stations[1][1], timestamp) \in Committed("prices")
    /\ CopiesIn(SqlPrice(data.stations[1][1], timestamp), Rows(cur, "prices")) = 1

\* C7: the status table never holds two rows for one station, and a status
\* row once inserted keeps its isOpen value in every later cycle, also when a
\* later snapshot reports the other value.
C7_StatusInsertIfAbsent ==
    [][ /\ UniqueOn(Rows(cur, "status"), {"stationId"})
        /\ UniqueOn(Rows(cur', "status"), {"stationId"})
        /\ UniqueOn(Rows(database', "status"), {"stationId"})
        /\ Kept("status") ]_vars

\* A1 is committed as open; a later cycle has just processed a priced
\* snapshot of A1 that reports it closed, and the one status row still says
\* open
C7_Witness ==
    /\ pc = "insert"
    /\ idx = 2
    /\ data.stations[1][1].id = "A1"
    /\ data.stations[1][1].price # None
    /\ ~data.stations[1][1].isOpen
    /\ [stationId |-> "A1", isOpen |-> 1] \in Committed("status")
    /\ {r.isOpen : r \in {q \in Pending("status") : q.stationId = "A1"}} = {1}

\* C8: whatever a step does (a commit, an exhausted or failed cycle, a
\* restart with its schema creation), every committed row of the three
\* tables is still there afterwards, unchanged and as often as before.
C8_AppendOnly ==
    [][ \A t \in TableNames : Rows(database, t) \sqsubseteq Rows(database', t) ]_vars

\* three prices are committed and a later cycle died with rows uncommitted
C8_Witness ==
    /\ pc = "crashed"
    /\ Cardinality(Committed("prices")) >= 3
    /\ Pending("prices") # Committed("prices")

\* C9: every attempt that does not return a success status, a connection
\* failure included, is followed by the retry delay (the process lives on).
C9_TransportErrorsRecoverable ==
    [][ (pc = "request" /\ nreq' = nreq + 1 /\ pc' # "parse") => pc' = "sleep" ]_vars

\* C10: a cycle that logs an API-level error (ok = false) goes on to process
\* the station list, whether the list is present, empty or null.
C10_ApiErrorNonFatal ==
    [][ (pc = "parse" /\ "api" \in stderr') => pc' = "insert" ]_vars

\* C11: a storage error in a cycle does not end the process: a cycle that
\* is persisting goes on persisting or returns to the idle loop.
C11_PersistenceFailureNotFatal ==
    [][ pc = "insert" => pc' \in {"insert", "idle"} ]_vars

\* C12: the loop is entered only with an interval that strictly exceeds
\* five minutes plus tries * timeout.
C12_IntervalStrictlyExceeds ==
    pc \notin {"start", "exit1"} =>
        sql_mts_k.interval > FiveMinutes + sql_mts_k.tries * sql_mts_k.timeout

\* C13: a file that cannot be loaded and a configuration that violates the
\* interval policy end the process with status 1, straight from startup:
\* an error is logged, no connection is open, the database file is as it
\* was, no request has been made, and nothing happens afterwards.
C13_StartupFailureFatal ==
    [][ /\ pc # "exit1"
        /\ (pc = "start" /\ FromFileRaises(file)) => pc' = "exit1"
        /\ (pc = "start" /\ sql_mts_k'.interval <
               FiveMinutes + sql_mts_k'.tries * sql_mts_k'.timeout) =>
              pc' = "exit1"
        /\ pc' = "exit1" =>
              /\ pc = "start"
              /\ database' = database
              /\ cur' = EmptyDatabase
              /\ nreq' = 0
              /\ elapsed' = elapsed
              /\ "config" \in stderr'
              /\ "init" \notin stderr' ]_vars

\* a complete configuration with an interval below the policy has ended the
\* process
C13_Witness ==
    /\ pc = "exit1"
    /\ file.loadable
    /\ file.section # None
    /\ sql_mts_k.interval = 60
    /\ database = EmptyDatabase

\* the value the file gives for a key of [sql_mts_k], or the default
Given(f, k, default) ==
    IF f.section # None /\ f.section[1][k] # None
      THEN f.section[1][k][1]
      ELSE default

\* C14: for every subset of tries, timeout, interval and database_path in
\* the file, startup takes the given values and the defaults for the rest,
\* and fails only on the interval policy.
C14_FieldsIndividuallyOptional ==
    (pc # "start" /\ file.loadable) =>
        /\ sql_mts_k =
              SqlMtsKConfig(Given(file, "tries", DefaultTries),
                            Given(file, "timeout", DefaultTimeout),
                            Given(file, "interval", DefaultInterval),
                            Given(file, "database_path", DefaultDatabasePath))
        /\ pc = "exit1" =>
              sql_mts_k.interval <
                  FiveMinutes + sql_mts_k.tries * sql_mts_k.timeout

\* the snapshots of the response being processed that carry a price
Priced == {data.stations[1][k] : k \in {j \in 1..Len(data.stations[1]) :
                                          data.stations[1][j].price # None}}

\* C15: a commit on a database whose three tables are empty, for a response
\* whose stations have distinct ids, leaves for every priced snapshot one
\* stations row with its ten fields, one status row with its id and open
\* flag (stored as 1 or 0) and one prices row with its id, the cycle's
\* timestamp and its price, and nothing else.
C15_NormalizationResult ==
    [][ ( /\ pc = "insert"
          /\ pc' = "idle"
          /\ \A t \in TableNames : Rows(database, t) = EmptyBag
          /\ \A j, k \in 1..Len(data.stations[1]) :
                j # k => data.stations[1][j].id # data.stations[1][k].id ) =>
        /\ Rows(database', "stations") =
              SetToBag({[id |-> s.id, name |-> s.name, brand |-> s.brand,
                         street |-> s.street, place |-> s.place,
                         lat |-> s.lat, lng |-> s.lng, dist |-> s.dist,
                         houseNumber |-> s.houseNumber,
                         postCode |-> s.postCode] : s \in Priced})
        /\ Rows(database', "status") =
              SetToBag({[stationId |-> s.id,
                         isOpen |-> IF s.isOpen THEN 1 ELSE 0] : s \in Priced})
        /\ Rows(database', "prices") =
              SetToBag({[stationId |-> s.id, timestamp |-> timestamp,
                         price |-> s.price[1]] : s \in Priced}) ]_vars

\* the first cycle committed A1 ("Shell", open) and B2 at timestamp 1000
C15_Witness ==
    /\ pc = "idle"
    /\ "success" \in stderr
    /\ Committed("status") = {[stationId |-> "A1", isOpen |-> 1],
                              [stationId |-> "B2", isOpen |-> 1]}
    /\ Committed("prices") =
          {[stationId |-> "A1", timestamp |-> 1000, price |-> Price],
           [stationId |-> "B2", timestamp |-> 1000, price |-> Price]}
    /\ {r.name : r \in Committed("stations")} = {"Shell"}

Running == {"request", "sleep", "parse", "insert"}

\* C16: the scheduler only moves Idle -> Running -> Idle: a cycle starts from
\* the idle loop only, and a cycle that has started stays in progress until
\* it returns the loop to idle, unless the HTTP call itself did not return.
C16_SingleFlight ==
    [][ /\ (pc \notin Running /\ pc' \in Running) => pc = "idle"
        /\ pc \in Running =>
              \/ pc' \in Running \cup {"idle"}
              \/ pc = "request" /\ exc' = "ConnectionError" ]_vars

\* C17: the schema creation of a startup raises nothing, leaves the loop
\* idle with the three tables there, changes no row of them, and leaves a
\* database file that already holds the three tables exactly as it was.
C17_SchemaIdempotent ==
    [][ pc = "configured" =>
          /\ pc' = "idle"
          /\ TableNames \subseteq DOMAIN database'
          /\ \A t \in TableNames : Rows(database', t) = Rows(database, t)
          /\ TableNames \subseteq DOMAIN database => database' = database ]_vars

\* a restarted process has just created its schema on a database that
\* holds rows
C17_Witness ==
    /\ pc = "idle"
    /\ stderr = {"init"}
    /\ Committed("stations") # {}
    /\ Committed("prices") # {}
    /\ cur = database

\* the prices rows the current transaction has written
Written == Pending("prices") \ Committed("prices")

\* C18: the prices rows a cycle writes all carry one timestamp, the one
\* taken before the first station is processed, which stays as it is for
\* the whole station loop.
C18_SharedTimestamp ==
    /\ \A r1, r2 \in Written : r1.timestamp = r2.timestamp
    /\ pc = "insert" =>
          /\ timestamp \in Timestamps
          /\ \A r \in Written : r.timestamp = timestamp

\* a cycle has written the prices of two stations
C18_Witness ==
    /\ pc = "insert"
    /\ idx = 3
    /\ {r.stationId : r \in Written} = {"A1", "B2"}
    /\ Committed("prices") # {}

\* C19: every station id of a committed status row or prices row is the id
\* of a committed stations row.
C19_Referential ==
    \A r \in Committed("status") \cup Committed("prices") :
        \E st \in Committed("stations") : st.id = r.stationId

\* both stations are committed, B2 after A1 and under the same name
C19_Witness ==
    /\ {r.stationId : r \in Committed("prices")} = {"A1", "B2"}
    /\ {r.stationId : r \in Committed("status")} = {"A1", "B2"}
    /\ {r.name : r \in Committed("stations")} = {"Shell"}
    /\ pc = "idle"

\* C20: the first request of a cycle is made five minutes or more after
\* the last request before it.
C20_MinimumPollingInterval ==
    [][ (pc = "request" /\ nreq = 0 /\ nreq' = 1) =>
            elapsed >= FiveMinutes ]_vars

\* a later cycle, after one that committed, has made its first request
C20_Witness ==
    /\ pc \in {"sleep", "parse"}
    /\ nreq = 1
    /\ elapsed = 0
    /\ Committed("prices") # {}
    /\ sql_mts_k.tries = 2
    /\ sql_mts_k.interval = 320

====
